---------------------------- MODULE Spec2Model ----------------------------
(***************************************************************************)
(* A model of the LC-3 virtual machine of src/lc3.c: the image loader, the *)
(* memory-mapped keyboard, the sixteen opcode handlers, the trap service   *)
(* routines, the run loop of main, the terminal mode calls and the SIGINT  *)
(* handler.  Words are 16-bit naturals; all arithmetic is taken mod 2^16   *)
(* where the C code stores into a uint16_t.                                *)
(***************************************************************************)
EXTENDS Integers, Sequences, FiniteSets, TLC

(* ------------------------- program constants -------------------------- *)

MEMORY_MAX == 65536

R_R0 == 0
R_R7 == 7
R_PC == 8
R_COND == 9
R_COUNT == 10

OP_BR == 0
OP_ADD == 1
OP_LD == 2
OP_ST == 3
OP_JSR == 4
OP_AND == 5
OP_LDR == 6
OP_STR == 7
OP_RTI == 8
OP_NOT == 9
OP_LDI == 10
OP_STI == 11
OP_JMP == 12
OP_RES == 13
OP_LEA == 14
OP_TRAP == 15

TRAP_GETC == 32
TRAP_OUT == 33
TRAP_PUTS == 34
TRAP_IN == 35
TRAP_PUTSP == 36
TRAP_HALT == 37

FL_POS == 1
FL_ZRO == 2
FL_NEG == 4

MR_KBSR == 65024
MR_KBDR == 65026

PC_START == 12288

(* EOF as returned by getchar(), and as it sits at the head of the input *)
(* stream once the host has closed it.                                   *)
EOF == -1

(* ------------------------- 16-bit arithmetic -------------------------- *)

Pow2(n) == 2 ^ n

(* conversion of an int to uint16_t *)
U16(x) == x % MEMORY_MAX

(* conversion of an int to unsigned char / to the low 8 bits *)
U8(x) == x % 256

(* x >> n on a non-negative value *)
Shr(x, n) == x \div Pow2(n)

(* (x << n) truncated to 16 bits *)
Shl16(x, n) == U16(x * Pow2(n))

RECURSIVE BitAndN(_, _, _)
BitAndN(x, y, n) ==
    IF n = 0 THEN 0
    ELSE (IF x % 2 = 1 /\ y % 2 = 1 THEN 1 ELSE 0)
         + 2 * BitAndN(x \div 2, y \div 2, n - 1)

(* x & y on 16-bit words *)
BitAnd(x, y) == BitAndN(x, y, 16)

RECURSIVE BitOrN(_, _, _)
BitOrN(x, y, n) ==
    IF n = 0 THEN 0
    ELSE (IF x % 2 = 1 \/ y % 2 = 1 THEN 1 ELSE 0)
         + 2 * BitOrN(x \div 2, y \div 2, n - 1)

(* x | y on 16-bit words *)
BitOr(x, y) == BitOrN(x, y, 16)

(* ~x stored into a uint16_t *)
BitNot(x) == 65535 - x

(* conversion of an unsigned byte to char (signed) and back to uint16_t:  *)
(* bytes 0x80..0xFF become 0xFF80..0xFFFF.  EOF (-1) becomes 0xFFFF.      *)
CharToU16(c) == IF c = EOF THEN 65535
                ELSE IF U8(c) >= 128 THEN U16(U8(c) - 256 + MEMORY_MAX)
                ELSE U8(c)

(* ------------------------------ utils --------------------------------- *)

sign_extend(x, bit_count) ==
    IF Shr(x, bit_count - 1) % 2 = 1
    THEN BitOr(x, Shl16(65535, bit_count))
    ELSE x

(* the flag update_flags stores for the register value v *)
FlagOf(v) ==
    IF v = 0 THEN FL_ZRO
    ELSE IF Shr(v, 15) # 0 THEN FL_NEG
    ELSE FL_POS

(* update_flags without its first branch: only the sign bit is looked at *)
update_flags_sign_only(rg, r) ==
    [rg EXCEPT ![R_COND] = IF Shr(rg[r], 15) # 0 THEN FL_NEG ELSE FL_POS]

update_flags(rg, r) == [rg EXCEPT ![R_COND] = FlagOf(rg[r])]

swap16(x) == BitOr(Shl16(x, 8), Shr(x, 8))

(* ------------------------------ memory -------------------------------- *)
(* memory[] is a zero-initialised array of 65536 words.  It is held as    *)
(* the function from the addresses of its nonzero cells to their values;  *)
(* every other cell is 0.                                                 *)

MemGet(mem, a) == IF a \in DOMAIN mem THEN mem[a] ELSE 0

MemPut(mem, a, v) ==
    IF v = 0
    THEN [x \in DOMAIN mem \ {a} |-> mem[x]]
    ELSE [x \in DOMAIN mem \cup {a} |-> IF x = a THEN v ELSE mem[x]]


(* ------------------------- host input stream -------------------------- *)
(* The machine state threaded through the handlers is the record          *)
(*   [mem, reg, fdin, buf, obuf, out, oob, poll, fd0, otio]               *)
(* mem, reg: memory[] and reg[]; fdin: the bytes waiting on descriptor 0  *)
(* (EOF as its last element once the host has closed the stream); buf:    *)
(* the bytes stdio has read from the descriptor and not yet handed out;   *)
(* obuf: the bytes put to stdout and not yet flushed; out: the bytes the  *)
(* sink has received; oob: whether a string scan has read outside         *)
(* memory[]; poll: the record of the last keyboard poll of mem_read; fd0:  *)
(* what descriptor 0 is open on; otio: original_tio.                      *)

Min(a, b) == IF a < b THEN a ELSE b

(* check_key: select() reports descriptor 0 readable (data or EOF) *)
check_key(M) == M.fdin # <<>>

(* Descriptor 0 is described by the record [tty, blksize, iflag]: whether *)
(* it is a terminal, its st_blksize, and the c_iflag of the terminal      *)
(* (0 when it is none).  st_blksize is 1024 on a terminal, 4096 on a pipe *)
(* or a file of a disk file system, 1024 on a file of procfs.             *)
TtyBlksize == 1024
PipeBlksize == 4096
ProcBlksize == 1024

(* the size of the buffer stdio gives stdin, which is what one refill     *)
(* asks for: st_blksize of descriptor 0                                   *)
StdinBufSize(fd) == fd.blksize

(* the number of bytes of q that precede its EOF *)
DataCount(q) ==
    IF \E i \in DOMAIN q : q[i] = EOF
    THEN (CHOOSE i \in DOMAIN q :
             q[i] = EOF /\ \A k \in 1..(i - 1) : q[k] # EOF) - 1
    ELSE Len(q)

DataBytes(q) == SubSeq(q, 1, DataCount(q))

(* the bytes one read() on descriptor 0 returns when getchar() refills   *)
(* its buffer of size n: those that precede EOF, and no more than n      *)
ReadPrefix(q, n) == SubSeq(q, 1, Min(n, DataCount(q)))

(* getchar() is called.  When it has to refill its buffer from a          *)
(* terminal, stdio first flushes stdout if that is line buffered (fl);   *)
(* on a pipe or a file it does not.                                      *)
getchar_enter(M, fl) ==
    IF fl /\ M.buf = << >>
    THEN [M EXCEPT !.out = M.out \o M.obuf, !.obuf = << >>]
    ELSE M

(* getchar() would block: nothing buffered and nothing on the descriptor *)
getchar_blocks(M) == M.buf = <<>> /\ M.fdin = <<>>

(* the value getchar() returns (when it does not block) *)
getchar_val(M) ==
    IF M.buf # <<>> THEN Head(M.buf)
    ELSE Head(M.fdin)

(* the stream state after getchar() returned *)
getchar_next(M) ==
    IF M.buf # <<>> THEN [M EXCEPT !.buf = Tail(M.buf)]
    ELSE IF Head(M.fdin) = EOF THEN M
    ELSE LET data == ReadPrefix(M.fdin, StdinBufSize(M.fd0))
         IN  [M EXCEPT !.buf = Tail(data),
                       !.fdin = SubSeq(M.fdin, Len(data) + 1, Len(M.fdin))]

(* --------------------------- memory access ---------------------------- *)

mem_write(M, address, val) == [M EXCEPT !.mem = MemPut(M.mem, address, val)]

(* the bytes the host has supplied and the program has not consumed *)
Unread(M) == M.buf \o DataBytes(M.fdin)

(* the record of a poll that found the streams as in M and left M2 *)
Polled(M, M2) ==
    [M2 EXCEPT !.poll = << [ready  |-> check_key(M),
                            unread |-> Unread(M),
                            left   |-> Unread(M2),
                            kbsr   |-> MemGet(M2.mem, MR_KBSR),
                            kbdr   |-> MemGet(M2.mem, MR_KBDR)] >>]

(* the state after mem_read(address) *)
mem_read_st(M, address) ==
    IF address = MR_KBSR
    THEN IF check_key(M)
         THEN LET M1 == [M EXCEPT !.mem = MemPut(M.mem, MR_KBSR, Shl16(1, 15))]
                  c  == getchar_val(M1)
                  M2 == getchar_next(M1)
              IN  Polled(M, [M2 EXCEPT !.mem = MemPut(M2.mem, MR_KBDR, U16(c))])
         ELSE Polled(M, [M EXCEPT !.mem = MemPut(M.mem, MR_KBSR, 0)])
    ELSE M

(* the value mem_read(address) returns *)
mem_read_val(M, address) == MemGet(mem_read_st(M, address).mem, address)

(* --------------------------- instructions ----------------------------- *)

SetReg(M, r, v) == [M EXCEPT !.reg[r] = v]

(* update_flags that ORs the new flag into R_COND instead of storing it *)
Flags_accumulate(M, r) ==
    [M EXCEPT !.reg[R_COND] = BitOr(M.reg[R_COND], FlagOf(M.reg[r]))]

Flags(M, r) == [M EXCEPT !.reg = update_flags(M.reg, r)]

addInstr(M, ins) ==
    LET r0 == BitAnd(Shr(ins, 9), 7)
        r1 == BitAnd(Shr(ins, 6), 7)
        imm_flag == BitAnd(Shr(ins, 5), 1)
        imm5 == sign_extend(BitAnd(ins, 31), 5)
        r2 == BitAnd(ins, 7)
    IN  IF imm_flag # 0
        THEN Flags(SetReg(M, r0, U16(M.reg[r1] + imm5)), r0)
        ELSE Flags(SetReg(M, r0, U16(M.reg[r1] + M.reg[r2])), r0)

(* ldiInstr with a single read, as ldInstr *)
ldiInstr_once(M, ins) ==
    LET r0 == BitAnd(Shr(ins, 9), 7)
        pc_offset == sign_extend(BitAnd(ins, 511), 9)
        a1 == U16(M.reg[R_PC] + pc_offset)
    IN  Flags(SetReg(mem_read_st(M, a1), r0, mem_read_val(M, a1)), r0)

ldiInstr(M, ins) ==
    LET r0 == BitAnd(Shr(ins, 9), 7)
        pc_offset == sign_extend(BitAnd(ins, 511), 9)
        a1 == U16(M.reg[R_PC] + pc_offset)
        M1 == mem_read_st(M, a1)
        a2 == mem_read_val(M, a1)
        M2 == mem_read_st(M1, a2)
    IN  Flags(SetReg(M2, r0, mem_read_val(M1, a2)), r0)

andInstr(M, ins) ==
    LET r0 == BitAnd(Shr(ins, 9), 7)
        r1 == BitAnd(Shr(ins, 6), 7)
        imm_flag == BitAnd(Shr(ins, 5), 1)
        imm5 == sign_extend(BitAnd(ins, 31), 5)
        r2 == BitAnd(ins, 7)
    IN  IF imm_flag # 0
        THEN Flags(SetReg(M, r0, BitAnd(M.reg[r1], imm5)), r0)
        ELSE Flags(SetReg(M, r0, BitAnd(M.reg[r1], M.reg[r2])), r0)

notInstr(M, ins) ==
    LET r0 == BitAnd(Shr(ins, 9), 7)
        r1 == BitAnd(Shr(ins, 6), 7)
    IN  Flags(SetReg(M, r0, BitNot(M.reg[r1])), r0)

(* brInstr that branches whenever the nzp field is not zero *)
brInstr_any_flag(M, ins) ==
    LET pc_offset == sign_extend(BitAnd(ins, 511), 9)
        cond_flag == BitAnd(Shr(ins, 9), 7)
    IN  IF cond_flag # 0
        THEN SetReg(M, R_PC, U16(M.reg[R_PC] + pc_offset))
        ELSE M

brInstr(M, ins) ==
    LET pc_offset == sign_extend(BitAnd(ins, 511), 9)
        cond_flag == BitAnd(Shr(ins, 9), 7)
    IN  IF BitAnd(cond_flag, M.reg[R_COND]) # 0
        THEN SetReg(M, R_PC, U16(M.reg[R_PC] + pc_offset))
        ELSE M

jmpInstr(M, ins) ==
    LET r1 == BitAnd(Shr(ins, 6), 7)
    IN  SetReg(M, R_PC, M.reg[r1])

(* jsrInstr that saves the link after the jump *)
jsrInstr_link_last(M, ins) ==
    LET long_flag == BitAnd(Shr(ins, 11), 1)
        long_pc_offset == sign_extend(BitAnd(ins, 2047), 11)
        r1 == BitAnd(Shr(ins, 6), 7)
        M1 == IF long_flag # 0
              THEN SetReg(M, R_PC, U16(M.reg[R_PC] + long_pc_offset))
              ELSE SetReg(M, R_PC, M.reg[r1])
    IN  SetReg(M1, R_R7, M1.reg[R_PC])

jsrInstr(M, ins) ==
    LET long_flag == BitAnd(Shr(ins, 11), 1)
        M1 == SetReg(M, R_R7, M.reg[R_PC])
        long_pc_offset == sign_extend(BitAnd(ins, 2047), 11)
        r1 == BitAnd(Shr(ins, 6), 7)
    IN  IF long_flag # 0
        THEN SetReg(M1, R_PC, U16(M1.reg[R_PC] + long_pc_offset))
        ELSE SetReg(M1, R_PC, M1.reg[r1])

ldInstr(M, ins) ==
    LET r0 == BitAnd(Shr(ins, 9), 7)
        pc_offset == sign_extend(BitAnd(ins, 511), 9)
        a == U16(M.reg[R_PC] + pc_offset)
    IN  Flags(SetReg(mem_read_st(M, a), r0, mem_read_val(M, a)), r0)

ldrInstr(M, ins) ==
    LET r0 == BitAnd(Shr(ins, 9), 7)
        r1 == BitAnd(Shr(ins, 6), 7)
        offset == sign_extend(BitAnd(ins, 63), 6)
        a == U16(M.reg[r1] + offset)
    IN  Flags(SetReg(mem_read_st(M, a), r0, mem_read_val(M, a)), r0)

leaInstr(M, ins) ==
    LET r0 == BitAnd(Shr(ins, 9), 7)
        pc_offset == sign_extend(BitAnd(ins, 511), 9)
    IN  Flags(SetReg(M, r0, U16(M.reg[R_PC] + pc_offset)), r0)

stInstr(M, ins) ==
    LET r0 == BitAnd(Shr(ins, 9), 7)
        pc_offset == sign_extend(BitAnd(ins, 511), 9)
    IN  mem_write(M, U16(M.reg[R_PC] + pc_offset), M.reg[r0])

(* stiInstr that ends with update_flags(r0), as the load handlers do *)
stiInstr_flags(M, ins) ==
    LET r0 == BitAnd(Shr(ins, 9), 7)
        pc_offset == sign_extend(BitAnd(ins, 511), 9)
        a1 == U16(M.reg[R_PC] + pc_offset)
        M1 == mem_read_st(M, a1)
    IN  Flags(mem_write(M1, mem_read_val(M, a1), M1.reg[r0]), r0)

stiInstr(M, ins) ==
    LET r0 == BitAnd(Shr(ins, 9), 7)
        pc_offset == sign_extend(BitAnd(ins, 511), 9)
        a1 == U16(M.reg[R_PC] + pc_offset)
        M1 == mem_read_st(M, a1)
    IN  mem_write(M1, mem_read_val(M, a1), M1.reg[r0])

strInstr(M, ins) ==
    LET r0 == BitAnd(Shr(ins, 9), 7)
        r1 == BitAnd(Shr(ins, 6), 7)
        offset == sign_extend(BitAnd(ins, 63), 6)
    IN  mem_write(M, U16(M.reg[r1] + offset), M.reg[r0])

(* ------------------------------- traps -------------------------------- *)

(* putc, puts, printf: into the buffer of stdout *)
PutBytes(M, bytes) == [M EXCEPT !.obuf = M.obuf \o bytes]

(* fflush(stdout) *)
Flush(M) == [M EXCEPT !.out = M.out \o M.obuf, !.obuf = << >>]

(* "HALT\n", as puts("HALT") writes it *)
HaltText == <<72, 65, 76, 84, 10>>

(* "Enter a character: " *)
PromptText == <<69, 110, 116, 101, 114, 32, 97, 32, 99, 104, 97, 114, 97,
                99, 116, 101, 114, 58, 32>>

(* The string scans of PUTS and PUTSP walk a uint16_t* from memory + R0   *)
(* until a zero word, with no check against the end of memory[].  A scan  *)
(* that finds no zero word up to 0xFFFF goes on reading whatever storage  *)
(* follows the array; g is the sequence of nonzero words it finds there   *)
(* before the first zero word.                                            *)
RECURSIVE ScanLeavesMemory(_, _)
ScanLeavesMemory(mem, a) ==
    IF a >= MEMORY_MAX THEN TRUE
    ELSE IF MemGet(mem, a) = 0 THEN FALSE
    ELSE ScanLeavesMemory(mem, a + 1)

(* The words of original_tio as a scan reads them: struct termios begins  *)
(* with the 32-bit c_iflag, so its first two words are the low and the    *)
(* high half of the c_iflag captured from the terminal; never captured,   *)
(* the structure is all zero.                                             *)
TermiosWords(t, iflag) ==
    IF t = "zeroed" THEN << 0 >> ELSE << iflag % 65536, iflag \div 65536 >>

(* the words behind memory[] up to the first zero word, by what the       *)
(* linker places there: a zero word (k = 0), the register file (k = 1)    *)
(* or original_tio (k = 2)                                                *)
RECURSIVE NonzeroPrefix(_)
NonzeroPrefix(ws) ==
    IF ws = <<>> \/ Head(ws) = 0 THEN <<>>
    ELSE <<Head(ws)>> \o NonzeroPrefix(Tail(ws))

StrayWords(M, k) ==
    CASE k = 0 -> << >>
      [] k = 1 -> NonzeroPrefix([i \in 1..R_COUNT |-> M.reg[i - 1]])
      [] k = 2 -> NonzeroPrefix(TermiosWords(M.otio, M.fd0.iflag))

StrayChoices == {0, 1, 2}

RECURSIVE PutsWords(_, _, _)
PutsWords(mem, a, g) ==
    IF a >= MEMORY_MAX THEN g
    ELSE IF MemGet(mem, a) = 0 THEN <<>>
    ELSE <<MemGet(mem, a)>> \o PutsWords(mem, a + 1, g)

(* TRAP_PUTS: one char per word *)
PutsText(ws) == [i \in 1..Len(ws) |-> U8(ws[i])]

(* TRAP_PUTSP: low byte, then the high byte when it is not zero *)
RECURSIVE PutspText(_)
PutspText(ws) ==
    IF ws = <<>> THEN <<>>
    ELSE LET char1 == BitAnd(Head(ws), 255)
             char2 == U8(Shr(Head(ws), 8))
         IN  <<char1>> \o (IF char2 # 0 THEN <<char2>> ELSE <<>>)
                       \o PutspText(Tail(ws))

trapPuts(M, k) ==
    LET ws == PutsWords(M.mem, M.reg[R_R0], StrayWords(M, k))
    IN  [Flush(PutBytes(M, PutsText(ws))) EXCEPT
            !.oob = M.oob \/ ScanLeavesMemory(M.mem, M.reg[R_R0])]

trapPutsp(M, k) ==
    LET ws == PutsWords(M.mem, M.reg[R_R0], StrayWords(M, k))
    IN  [Flush(PutBytes(M, PutspText(ws))) EXCEPT
            !.oob = M.oob \/ ScanLeavesMemory(M.mem, M.reg[R_R0])]

(* TRAP_OUT: putc((char)reg[R_R0], stdout) *)
trapOut(M) == Flush(PutBytes(M, <<U8(M.reg[R_R0])>>))

(* TRAP_GETC without its update_flags(R_R0) *)
trapGetc_no_flags(M) ==
    LET c == getchar_val(M)
    IN  SetReg(getchar_next(M), R_R0, U16(c))

(* TRAP_GETC once getchar() has returned c *)
trapGetc(M) ==
    LET c == getchar_val(M)
    IN  Flags(SetReg(getchar_next(M), R_R0, U16(c)), R_R0)

(* TRAP_IN once getchar() has returned: c is a (signed) char *)
trapIn(M) ==
    LET c  == getchar_val(M)
        M1 == Flush(PutBytes(getchar_next(M), <<U8(c)>>))
    IN  Flags(SetReg(M1, R_R0, CharToU16(c)), R_R0)

(* the part of trapInstr that runs before the service routine may block:  *)
(* the link, and the prompt of TRAP_IN                                    *)
trapEnter(M, ins) ==
    LET M1 == SetReg(M, R_R7, M.reg[R_PC])
    IN  IF BitAnd(ins, 255) = TRAP_IN THEN PutBytes(M1, PromptText) ELSE M1

(* whether the service routine of this TRAP calls getchar() *)
TrapReads(ins) == BitAnd(ins, 255) \in {TRAP_GETC, TRAP_IN}

(* trapRun whose unknown vectors fall into the TRAP_OUT case *)
trapRun_default_out(M, ins, k) ==
    LET v == BitAnd(ins, 255)
    IN  CASE v = TRAP_PUTS  -> trapPuts(M, k)
          [] v = TRAP_PUTSP -> trapPutsp(M, k)
          [] v = TRAP_HALT  -> Flush(PutBytes(M, HaltText))
          [] OTHER          -> trapOut(M)

(* the rest of trapInstr, for the vectors that never block *)
trapRun(M, ins, k) ==
    LET v == BitAnd(ins, 255)
    IN  CASE v = TRAP_OUT   -> trapOut(M)
          [] v = TRAP_PUTS  -> trapPuts(M, k)
          [] v = TRAP_PUTSP -> trapPutsp(M, k)
          [] v = TRAP_HALT  -> Flush(PutBytes(M, HaltText))
          [] OTHER          -> M

(* the rest of trapInstr for TRAP_GETC and TRAP_IN, once input is there *)
trapRead(M, ins) ==
    IF BitAnd(ins, 255) = TRAP_GETC THEN trapGetc(M) ELSE trapIn(M)

(* --------------------------- image loading ---------------------------- *)
(* A file is its sequence of bytes.  The host is little-endian: fread()   *)
(* of one uint16_t puts the first byte of the file in the low half.       *)

HostWord(bytes, k) == bytes[k] + 256 * bytes[k + 1]

RECURSIVE StoreWords(_, _, _, _, _)
StoreWords(mem, origin, bytes, i, read) ==
    IF i >= read THEN mem
    ELSE StoreWords(MemPut(mem, origin + i,
                           swap16(HostWord(bytes, 3 + 2 * i))),
                    origin, bytes, i + 1, read)

(* read_image_file.  fread() of a file that ends in the middle of a word  *)
(* leaves that element indeterminate: with partial the odd last byte is   *)
(* left in the low half of the next cell, without it the cell keeps its   *)
(* value.                                                                 *)
read_image_file(mem, bytes, partial) ==
    IF Len(bytes) < 2 THEN mem
    ELSE LET origin   == swap16(HostWord(bytes, 1))
             max_read == U16(MEMORY_MAX - origin)
             avail    == (Len(bytes) - 2) \div 2
             read     == Min(max_read, avail)
             mem1     == StoreWords(mem, origin, bytes, 0, read)
             odd      == (Len(bytes) - 2) % 2 = 1
         IN  IF partial /\ odd /\ read < max_read
             THEN MemPut(mem1, origin + read,
                         256 * Shr(MemGet(mem1, origin + read), 8)
                           + bytes[Len(bytes)])
             ELSE mem1

(* ------------------------------ inputs -------------------------------- *)
(* The inputs of a run are the argument vector, the files on disk and the *)
(* bytes the host will type.  A path is the sequence of the bytes of a    *)
(* two-character file name: a family letter and an index character.       *)

(* the file image: big-endian origin, then big-endian words *)
BE(w) == <<Shr(w, 8), w % 256>>

RECURSIVE WordsBE(_)
WordsBE(ws) == IF ws = <<>> THEN <<>> ELSE BE(Head(ws)) \o WordsBE(Tail(ws))

Image(origin, ws) == BE(origin) \o WordsBE(ws)

(* Probe images: eight loads that fill R0..R7 from a data table, one      *)
(* probe instruction at 0x3008, TRAP HALT at 0x3009, the table at         *)
(* 0x300A..0x3011 and a block of data cells at 0x3012..0x301A.            *)
Prologue ==
    << \h2009, \h2209, \h2409, \h2609, \h2809, \h2A09, \h2C09, \h2E09 >>

ProbeData ==
    << \h3013, \h0042, \hFE00, \hFE02, \h3016, \hFFFF, \h8041, \h0069, \h0000 >>

(* family letters 'A', 'B', 'C': the register tables *)
RegTable(fam) ==
    CASE fam = 65 ->
           << \h3018, \hFE00, \hFFFF, \h7FFF, \h8000, \h0001, \h3014, \h0000 >>
      [] fam = 66 ->
           << \hFFFF, \h0041, \hFE02, \h3009, \h00FF, \h1234, \hFFF0, \h8001 >>
      [] fam = 67 ->
           << \h0080, \h3016, \h0000, \h0001, \h7FFF, \hFFFE, \h3012, \h3000 >>

ProbeFamilies == {65, 66, 67}

Probes ==
    << (* ADD *) \h1021, \h14C5, \h1285, \h16FF, \h1F30, \h1904, \h105A,
       (* AND *) \h5020, \h5284, \h5BBF, \h572F,
       (* NOT *) \h903F, \h94BF, \h9F3F, \h9240,
       (* LD  *) \h2209, \h25FF, \h2611, \h200F,
       (* LDR *) \h6040, \h6042, \h6681, \h6BBF, \h6FC0,
       (* LDI *) \hA00B, \hA20C, \hA409, \hA60D, \hA80E, \hAA11,
       (* LEA *) \hE001, \hE3FF, \hEEFF, \hE500,
       (* ST  *) \h3209, \h3400, \h3FFF,
       (* STI *) \hB60B, \hB00C, \hB80D, \hBA09, \hB40E,
       (* STR *) \h7180, \h7640, \h7481, \h7AFF,
       (* BR  *) \h0005, \h01FF, \h0802, \h0402, \h0202, \h0E02, \h0FF7,
                 \h0C01, \h0F00,
       (* JMP *) \hC1C0, \hC080, \hC0C0, \hC000, \hCE7F,
       (* JSR *) \h4801, \h4FFF, \h4C00, \h41C0, \h4080, \h4180, \h4000,
       (* TRAP *) \hF020, \hF021, \hF022, \hF023, \hF024, \hF025, \hF000,
                  \hF026, \hF0FF, \hF01F, \hFF25, \hF121,
       (* RTI, RES *) \h8000, \h8FFF, \hD000, \hDABC >>

ProbeImage(fam, i) ==
    Image(PC_START,
          Prologue \o <<Probes[i], \hF025>> \o RegTable(fam) \o ProbeData)

(* probes that read the keyboard: LDR/STR through 0xFE00 and 0xFE02, *)
(* TRAP GETC, TRAP IN                                                 *)
ReadingProbes ==
    {i \in DOMAIN Probes : Probes[i] \in {\h6040, \h6042, \h7640, \hF020, \hF023}}

(* family letter 'T': one word w at 0xFFFF, in an image of origin 0xFFFE *)
(* whose payload is longer than the two cells left                       *)
TopWords ==
    << \h0041, \h4801, \hE400, \hF0FF, \h23FF, \h3600, \hF022, \hC1C0 >>

TopImage(i) == Image(\hFFFE, << \h0E00, TopWords[i], \h1234, \hF025 >>)

(* family letter 'h': single images *)
BigImage ==
    [k \in 1..(2 + 2 * (MEMORY_MAX + 1)) |->
        IF k <= 2 THEN 0 ELSE IF k % 2 = 1 THEN 240 ELSE 37]

Handmade ==
    << (*  1 *) Image(PC_START, << \hF025 >>),
       (*  2 *) Image(PC_START, << \h1020, \h1027, \hF025 >>),
       (*  3 *) Image(PC_START, << \hE001, \hF025 >>),
       (*  4 *) Image(\h3001, << \hF025 >>),
       (*  5, the echo loop: poll KBSR, read KBDR, TRAP OUT, branch back *)
                Image(PC_START, << \hA004, \h07FE, \hA003, \hF021, \h0FFB,
                                   \hFE00, \hFE02 >>),
       (*  6, LD R0; TRAP PUTS; TRAP HALT *)
                Image(PC_START, << \h2002, \hF022, \hF025, \h4000 >>),
       (*  7, the string of 6 *)
                Image(\h4000, << \h0048, \h0069, \h0021, \h0000 >>),
       (*  8, origin 0 *)
                Image(0, << \hF025, \h1234, \hABCD >>),
       (*  9, origin 0 and one word more than memory holds *)
                BigImage,
       (* 10, a file that ends in the middle of a word *)
                Image(\h3001, << \h6263 >>) \o <<97>>,
       (* 11, an origin and no payload *)
                Image(PC_START, << >>),
       (* 12, a file of one byte *)
                <<48>>,
       (* 13, an empty file *)
                << >>,
       (* 14, origin 0xFFFF *)
                Image(\hFFFF, << \h0041, \h0042, \h0043 >>),
       (* 15, code around the keyboard registers, at 0xFDFC *)
                Image(\hFDFC, << \h54A0, \hB602, \hA201, \h2400 >>),
       (* 16, LD R3; JMP R3 into 15 *)
                Image(PC_START, << \h2601, \hC0C0, \hFDFC >>),
       (* 17, origin 0xFFFF and exactly one word *)
                Image(\hFFFF, << \hF025 >>),
       (* 18, LD R0; TRAP PUTSP; TRAP HALT *)
                Image(PC_START, << \h2002, \hF024, \hF025, \hFFFE >>),
       (* 19, two words at 0x0001, under the image 8 of origin 0 *)
                Image(1, << \h1111, \h2222 >>) >>

(* family letter 'R': LD R1; STI R1 and LDI R2 through the cell 0x3005;   *)
(* TRAP HALT; the word loaded into R1; the pointer in 0x3005              *)
RoundTripPointers == << \h3005, \hFE00, \hFE02, \h3010 >>

RoundTripImage(i) ==
    Image(PC_START, << \h2203, \hB203, \hA402, \hF025, \h3003,
                       RoundTripPointers[i] >>)

ProbePath(fam, i) == <<fam, 48 + i>>
RoundTripPath(i) == <<82, 48 + i>>
TopPath(i) == <<84, 48 + i>>
HandPath(i) == <<104, 48 + i>>
MissingPath == <<120, 48>>

(* the files that fopen(path, "rb") opens; any other path fails *)
OnDisk(path) ==
    \/ path[1] \in ProbeFamilies /\ path[2] - 48 \in DOMAIN Probes
    \/ path[1] = 84 /\ path[2] - 48 \in DOMAIN TopWords
    \/ path[1] = 82 /\ path[2] - 48 \in DOMAIN RoundTripPointers
    \/ path[1] = 104 /\ path[2] - 48 \in DOMAIN Handmade

Disk(path) ==
    CASE path[1] \in ProbeFamilies -> ProbeImage(path[1], path[2] - 48)
      [] path[1] = 84              -> TopImage(path[2] - 48)
      [] path[1] = 82              -> RoundTripImage(path[2] - 48)
      [] path[1] = 104             -> Handmade[path[2] - 48]

(* what the host supplies: a sequence of arrivals on descriptor 0, each   *)
(* the bytes of one write to it (a key, or a paste), or the end of the    *)
(* stream                                                                 *)
NoInput == << >>
Inputs ==
    { << <<72>>, <<105>>, <<10>> >>, << <<200>>, <<EOF>> >>, << <<EOF>> >>,
      << <<65>> >> }

(* one arrival of more bytes than the buffer of stdin holds *)
Paste == [i \in 1..(PipeBlksize + 1) |-> 97 + (i % 2)]

Run(args, keys) == [argv |-> args, future |-> keys]

(* what descriptor 0 may be open on: a terminal with the c_iflag f, a     *)
(* pipe, a file of procfs                                                 *)
Terminal(f) == [tty |-> TRUE, blksize |-> TtyBlksize, iflag |-> f]
Pipe == [tty |-> FALSE, blksize |-> PipeBlksize, iflag |-> 0]
ProcFile == [tty |-> FALSE, blksize |-> ProcBlksize, iflag |-> 0]

(* c_iflag of a terminal: ICRNL | IXON, with IUTF8, with IUTF8, IMAXBEL   *)
(* and BRKINT                                                             *)
CIflags == { \h0500, \h4500, \h6502 }

(* the images that put a nonzero word at 0xFFFF *)
FillsTop(args) ==
    \E i \in DOMAIN args :
        args[i][1] = 84 \/ (args[i][1] = 104 /\ args[i][2] - 48 \in {14, 17})

(* the descriptors a scenario is run on: a terminal and a pipe; every     *)
(* c_iflag where a string scan can leave memory[]; the smaller block size *)
(* where the input is longer than it                                      *)
Descriptors(s) ==
    {Terminal(\h0500), Pipe}
    \cup (IF FillsTop(s.argv) THEN {Terminal(f) : f \in CIflags} ELSE {})
    \cup (IF s.future # << >> /\ Len(s.future[1]) > ProcBlksize
          THEN {ProcFile} ELSE {})

Scenarios ==
    {Run(<<ProbePath(f, i)>>, NoInput) :
        f \in ProbeFamilies, i \in DOMAIN Probes}
    \cup {Run(<<ProbePath(f, i)>>, k) :
        f \in ProbeFamilies, i \in ReadingProbes, k \in Inputs}
    \cup {Run(<<TopPath(t), ProbePath(f, i)>>, NoInput) :
        t \in DOMAIN TopWords, f \in ProbeFamilies,
        i \in {x \in DOMAIN Probes : Probes[x] \in {\hC080, \hF022, \hF024, \hA80E}}}
    \cup {Run(<<HandPath(5)>>, k) : k \in Inputs \cup {NoInput, <<Paste>>}}
    \cup {Run(<<RoundTripPath(i)>>, k) :
        i \in DOMAIN RoundTripPointers, k \in {NoInput, << <<65>> >>}}
    \cup {Run(<<HandPath(15), HandPath(16)>>, k) : k \in Inputs \cup {NoInput}}
    \cup {Run(a, NoInput) : a \in
        { << >>, <<MissingPath>>, <<HandPath(1), MissingPath>>,
          <<HandPath(1)>>, <<HandPath(2)>>, <<HandPath(3)>>,
          <<HandPath(2), HandPath(4)>>, <<HandPath(4), HandPath(2)>>,
          <<HandPath(7), HandPath(6)>>, <<HandPath(6), HandPath(7)>>,
          <<HandPath(2), HandPath(8)>>, <<HandPath(8)>>, <<HandPath(9)>>,
          <<HandPath(2), HandPath(10)>>, <<HandPath(2), HandPath(11)>>,
          <<HandPath(2), HandPath(12)>>, <<HandPath(2), HandPath(13)>>,
          <<HandPath(14), HandPath(18)>>, <<HandPath(17), HandPath(16)>>,
          <<HandPath(14), HandPath(1)>>, <<HandPath(17), HandPath(14)>>,
          <<HandPath(19), HandPath(8)>> }}

(* ------------------------------- bounds ------------------------------- *)

(* the number of instructions a run may fetch *)
MaxSteps == 12

(* ------------------------------- state -------------------------------- *)

VARIABLES
    argv,         \* the image paths of the command line (argv[1..argc-1])
    fd0,          \* what descriptor 0 is open on: [tty, blksize, iflag]
    future,       \* the arrivals the host has not supplied yet
    typed,        \* the bytes the host has typed so far
    pc,           \* where main is
    j,            \* the index of the image loop
    handler,      \* handle_interrupt is installed for SIGINT
    tio,          \* the attributes of the terminal on descriptor 0
    original_tio, \* the saved attributes
    tioCalls,     \* the calls made so far: "disable", "restore"
    exitStatus,   \* how the process ended, "none" while it runs
    memory, reg, running, instr,
    fdin,         \* the bytes waiting on descriptor 0
    stdinbuf,     \* the bytes stdio has read ahead
    outbuf,       \* the bytes put to stdout and not yet flushed
    stdout,       \* the bytes the sink has received
    oobRead,      \* a string scan has read outside memory[]
    lastPoll,     \* the last poll of the keyboard by mem_read, << >> if none
    fetchAddr,    \* the address instr was fetched from
    pre,          \* reg, memory and the sink as the last image load or
                  \* the handler of instr found them
    prev,         \* instr, fetchAddr and pre of the instruction before
    steps         \* the number of instructions fetched

vars == << argv, fd0, future, typed, pc, j, handler, tio, original_tio, tioCalls,
           exitStatus, memory, reg, running, instr, fdin, stdinbuf, outbuf,
           stdout, oobRead, lastPoll, fetchAddr, pre, prev, steps >>

(* the machine state the handlers work on, and its write-back *)
Mach == [mem |-> memory, reg |-> reg, fdin |-> fdin, buf |-> stdinbuf,
         obuf |-> outbuf, out |-> stdout, oob |-> oobRead, poll |-> lastPoll,
         fd0 |-> fd0, otio |-> original_tio]

SetMach(M) ==
    /\ memory' = M.mem
    /\ reg' = M.reg
    /\ fdin' = M.fdin
    /\ stdinbuf' = M.buf
    /\ outbuf' = M.obuf
    /\ stdout' = M.out
    /\ oobRead' = M.oob
    /\ lastPoll' = M.poll

Snapshot(M) == [reg |-> M.reg, mem |-> M.mem, out |-> M.out]

UsageText == <<108, 99, 51, 32, 91, 105, 109, 97, 103, 101, 45, 102, 105, 108, 101, 49, 93, 32, 46, 46, 46, 10>>

FailText == <<102, 97, 105, 108, 101, 100, 32, 116, 111, 32, 108, 111, 97, 100, 32, 105, 109, 97, 103, 101, 58, 32>>

Init ==
    /\ \E s \in Scenarios :
          /\ argv = s.argv
          /\ future = s.future
          /\ fd0 \in Descriptors(s)
    /\ typed = << >>
    /\ pc = "signal"
    /\ j = 1
    /\ handler = FALSE
    /\ tio = IF fd0.tty THEN "cooked" ELSE "none"
    /\ original_tio = "zeroed"
    /\ tioCalls = << >>
    /\ exitStatus = "none"
    /\ memory = << >>
    /\ reg = [r \in 0..(R_COUNT - 1) |-> 0]
    /\ running = FALSE
    /\ instr = 0
    /\ fdin = << >>
    /\ stdinbuf = << >>
    /\ outbuf = << >>
    /\ stdout = << >>
    /\ oobRead = FALSE
    /\ lastPoll = << >>
    /\ fetchAddr = 0
    /\ pre = Snapshot(Mach)
    /\ prev = [instr |-> 0, addr |-> 0, pre |-> pre]
    /\ steps = 0

(* --------------------------- terminal mode ---------------------------- *)

(* the terminal on descriptor 0 has been hung up: the end of the stream   *)
(* of a terminal                                                          *)
HungUp == fd0.tty /\ \E i \in DOMAIN typed : typed[i] = EOF

(* tcgetattr and tcsetattr on descriptor 0 succeed: it is a terminal that *)
(* has not been hung up.  The code does not look at what they return.     *)
TermiosOk == fd0.tty /\ ~HungUp

(* disable_input_buffering: save the attributes, clear ICANON and ECHO.   *)
(* When tcgetattr and tcsetattr fail original_tio stays as it was and no  *)
(* attribute changes.                                                     *)
disable_input_buffering ==
    /\ original_tio' = IF TermiosOk THEN tio ELSE original_tio
    /\ tio' = IF TermiosOk /\ tio = "cooked" THEN "raw" ELSE tio
    /\ tioCalls' = Append(tioCalls, "disable")

(* restore_input_buffering: write the saved attributes back *)
restore_input_buffering ==
    /\ tio' = IF TermiosOk THEN original_tio ELSE tio
    /\ tioCalls' = Append(tioCalls, "restore")
    /\ UNCHANGED original_tio

(* the process ends with status st, nothing more is written *)
Terminate(st) ==
    /\ exitStatus' = st
    /\ pc' = "exited"

(* printf(text); exit(st): exit() flushes stdout *)
PrintAndExit(text, st) ==
    /\ stdout' = stdout \o outbuf \o text
    /\ outbuf' = << >>
    /\ Terminate(st)

(* -------------------------------- main -------------------------------- *)

(* signal(SIGINT, handle_interrupt) *)
InstallHandler ==
    /\ pc = "signal"
    /\ handler' = TRUE
    /\ pc' = "disable"
    /\ UNCHANGED << argv, fd0, future, typed, j, tio, original_tio, tioCalls,
                    exitStatus, memory, reg, running, instr, fdin, stdinbuf,
                    outbuf, stdout, oobRead, lastPoll, fetchAddr, pre, prev, steps >>

DisableBuffering ==
    /\ pc = "disable"
    /\ disable_input_buffering
    /\ pc' = "args"
    /\ UNCHANGED << argv, fd0, future, typed, j, handler, exitStatus, memory, reg,
                    running, instr, fdin, stdinbuf, outbuf, stdout, oobRead, lastPoll,
                    fetchAddr, pre, prev, steps >>

(* if (argc < 2) { usage; exit(2); } *)
CheckArgs ==
    /\ pc = "args"
    /\ IF Len(argv) < 1
       THEN PrintAndExit(UsageText, "exit2")
       ELSE /\ pc' = "load"
            /\ UNCHANGED << outbuf, stdout, exitStatus >>
    /\ UNCHANGED << argv, fd0, future, typed, j, handler, tio, original_tio,
                    tioCalls, memory, reg, running, instr, fdin, stdinbuf,
                    oobRead, lastPoll, fetchAddr, pre, prev, steps >>

(* one turn of the image loop: read_image(argv[j]) *)
LoadImage ==
    /\ pc = "load"
    /\ j <= Len(argv)
    /\ IF OnDisk(argv[j])
       THEN /\ \E partial \in BOOLEAN :
                 memory' = read_image_file(memory, Disk(argv[j]), partial)
            /\ pre' = Snapshot(Mach)
            /\ j' = j + 1
            /\ UNCHANGED << pc, outbuf, stdout, exitStatus >>
       ELSE /\ PrintAndExit(FailText \o argv[j] \o <<10>>, "exit1")
            /\ UNCHANGED << memory, j, pre >>
    /\ UNCHANGED << argv, fd0, future, typed, handler, tio, original_tio, tioCalls,
                    reg, running, instr, fdin, stdinbuf, oobRead, lastPoll,
                    fetchAddr, prev, steps >>

(* reg[R_COND] = FL_ZRO; reg[R_PC] = PC_START; running = 1 *)
InitRun ==
    /\ pc = "load"
    /\ j > Len(argv)
    /\ reg' = [reg EXCEPT ![R_COND] = FL_ZRO, ![R_PC] = PC_START]
    /\ running' = TRUE
    /\ pc' = "fetch"
    /\ UNCHANGED << argv, fd0, future, typed, j, handler, tio, original_tio,
                    tioCalls, exitStatus, memory, instr, fdin, stdinbuf,
                    outbuf, stdout, oobRead, lastPoll, fetchAddr, pre, prev, steps >>

(* ------------------------------ run loop ------------------------------ *)

(* the switch of main for the opcodes that return to the loop *)
dispatch(M, ins, k) ==
    LET op == Shr(ins, 12)
    IN  CASE op = OP_ADD  -> addInstr(M, ins)
          [] op = OP_AND  -> andInstr(M, ins)
          [] op = OP_NOT  -> notInstr(M, ins)
          [] op = OP_BR   -> brInstr(M, ins)
          [] op = OP_JMP  -> jmpInstr(M, ins)
          [] op = OP_JSR  -> jsrInstr(M, ins)
          [] op = OP_LD   -> ldInstr(M, ins)
          [] op = OP_LDI  -> ldiInstr(M, ins)
          [] op = OP_LDR  -> ldrInstr(M, ins)
          [] op = OP_LEA  -> leaInstr(M, ins)
          [] op = OP_ST   -> stInstr(M, ins)
          [] op = OP_STI  -> stiInstr(M, ins)
          [] op = OP_STR  -> strInstr(M, ins)
          [] op = OP_TRAP -> trapRun(trapEnter(M, ins), ins, k)

(* the opcodes whose case is abort() *)
Aborts(ins) == Shr(ins, 12) \in {OP_RES, OP_RTI}

(* a switch in which every vector below TRAP_HALT falls through to it *)
Halts_fallthrough(ins) ==
    Shr(ins, 12) = OP_TRAP /\ BitAnd(ins, 255) <= TRAP_HALT

(* TRAP_HALT: *running = 0 *)
Halts(ins) == Shr(ins, 12) = OP_TRAP /\ BitAnd(ins, 255) = TRAP_HALT

(* a fetch that reads at PC and leaves the increment for later *)
fetch_no_increment(M) ==
    LET a == M.reg[R_PC]
    IN  [st |-> mem_read_st(M, a), addr |-> a, val |-> mem_read_val(M, a)]

(* instr = mem_read(reg[R_PC]++): the state after it, the address read *)
(* and the value returned                                              *)
fetch(M) ==
    LET a  == M.reg[R_PC]
        M1 == SetReg(M, R_PC, U16(a + 1))
    IN  [st |-> mem_read_st(M1, a), addr |-> a, val |-> mem_read_val(M1, a)]

(* FETCH: uint16_t instr = mem_read(reg[R_PC]++) *)
Fetch ==
    /\ pc = "fetch"
    /\ running
    /\ steps < MaxSteps
    /\ LET f == fetch(Mach)
       IN  /\ instr' = f.val
           /\ fetchAddr' = f.addr
           /\ SetMach(f.st)
           /\ pre' = Snapshot(f.st)
    /\ prev' = [instr |-> instr, addr |-> fetchAddr, pre |-> pre]
    /\ steps' = steps + 1
    /\ pc' = "exec"
    /\ UNCHANGED << argv, fd0, future, typed, j, handler, tio, original_tio,
                    tioCalls, exitStatus, running >>

(* the switch on the opcode *)
Execute ==
    /\ pc = "exec"
    /\ IF Aborts(instr)
       THEN /\ Terminate("abort")
            /\ UNCHANGED << memory, reg, fdin, stdinbuf, outbuf, stdout,
                            oobRead, lastPoll, running >>
       ELSE IF Shr(instr, 12) = OP_TRAP /\ TrapReads(instr)
       THEN /\ \E fl \in BOOLEAN :
                 SetMach(getchar_enter(trapEnter(Mach, instr), fl))
            /\ pc' = "getchar"
            /\ UNCHANGED << exitStatus, running >>
       ELSE /\ \E k \in StrayChoices : SetMach(dispatch(Mach, instr, k))
            /\ running' = IF Halts(instr) THEN FALSE ELSE running
            /\ pc' = "fetch"
            /\ UNCHANGED exitStatus
    /\ UNCHANGED << argv, fd0, future, typed, j, handler, tio, original_tio,
                    tioCalls, instr, fetchAddr, pre, prev, steps >>

(* TRAP_GETC and TRAP_IN go on when getchar() returns *)
GetcharReturn ==
    /\ pc = "getchar"
    /\ ~getchar_blocks(Mach)
    /\ SetMach(trapRead(Mach, instr))
    /\ pc' = "fetch"
    /\ UNCHANGED << argv, fd0, future, typed, j, handler, tio, original_tio,
                    tioCalls, exitStatus, running, instr, fetchAddr, pre, prev,
                    steps >>

(* the loop ends; restore_input_buffering(); main returns and the process *)
(* exits, which flushes stdout                                            *)
Return ==
    /\ pc = "fetch"
    /\ ~running
    /\ restore_input_buffering
    /\ PrintAndExit(<< >>, "return")
    /\ UNCHANGED << argv, fd0, future, typed, j, handler, memory, reg, running,
                    instr, fdin, stdinbuf, oobRead, lastPoll, fetchAddr, pre, prev, steps >>

(* --------------------------- the environment -------------------------- *)

(* SIGINT arrives.  Once handle_interrupt is installed it runs:           *)
(* restore_input_buffering(); printf("\n"); exit(-2).  Before, the default *)
(* disposition ends the process.                                          *)
handle_interrupt ==
    /\ restore_input_buffering
    /\ PrintAndExit(<<10>>, "exit-2")

Sigint ==
    /\ exitStatus = "none"
    /\ IF handler
       THEN handle_interrupt
       ELSE /\ Terminate("sigint")
            /\ UNCHANGED << tio, original_tio, tioCalls, outbuf, stdout >>
    /\ UNCHANGED << argv, fd0, future, typed, j, handler, memory, reg, running,
                    instr, fdin, stdinbuf, oobRead, lastPoll, fetchAddr, pre, prev, steps >>

(* the next arrival: the host types a key, pastes, or closes the stream.  *)
(* The stream of a terminal ends with a hangup, which discards the bytes  *)
(* still waiting on the descriptor.                                       *)
HostKey ==
    /\ exitStatus = "none"
    /\ future # << >>
    /\ fdin' = IF fd0.tty /\ Head(future) = <<EOF>>
               THEN <<EOF>>
               ELSE fdin \o Head(future)
    /\ future' = Tail(future)
    /\ typed' = typed \o Head(future)
    /\ UNCHANGED << argv, fd0, pc, j, handler, tio, original_tio, tioCalls,
                    exitStatus, memory, reg, running, instr, stdinbuf,
                    outbuf, stdout, oobRead, lastPoll, fetchAddr, pre, prev, steps >>

Next ==
    \/ InstallHandler
    \/ DisableBuffering
    \/ CheckArgs
    \/ LoadImage
    \/ InitRun
    \/ Fetch
    \/ Execute
    \/ GetcharReturn
    \/ Return
    \/ Sigint
    \/ HostKey

Spec == Init /\ [][Next]_vars

(* ---------------------------- properties ------------------------------ *)
(* The fields of an instruction word and the classes of opcodes, written  *)
(* out arithmetically.                                                    *)

OpOf(ins) == ins \div 4096
DrOf(ins) == (ins \div 512) % 8
BaseOf(ins) == (ins \div 64) % 8
VectorOf(ins) == ins % 256
Off9Of(ins) == IF ins % 512 >= 256 THEN (ins % 512) - 512 ELSE ins % 512

OneHot == {1, 2, 4}

(* Z for zero, N for bit 15 set, P otherwise *)
Classifies(cond, v) ==
    \/ v = 0 /\ cond = 2
    \/ v >= 32768 /\ cond = 4
    \/ v > 0 /\ v < 32768 /\ cond = 1

IsHaltWord(ins) == OpOf(ins) = 15 /\ VectorOf(ins) = 37
IsIllegalWord(ins) == OpOf(ins) \in {8, 13}
IsUnknownTrap(ins) == OpOf(ins) = 15 /\ VectorOf(ins) \notin 32..37

(* the handler of instr has returned to the run loop *)
Completed == pc = "fetch" /\ steps > 0

(* the run loop has been entered *)
RunStarted == pc \in {"fetch", "exec", "getchar"} \/ steps > 0

(* C1: from the initialisation of the run loop on, COND is one of P, Z, N *)
(* before and after every instruction.                                    *)
C1_CondOneHot ==
    RunStarted =>
        /\ reg[R_COND] \in OneHot
        /\ steps > 0 => pre.reg[R_COND] \in OneHot

C1_Witness ==
    /\ Completed
    /\ pre.reg[R_COND] = 1
    /\ reg[R_COND] = 4

(* C2: the PC a handler sees is the fetch address plus one mod 2^16, the  *)
(* increment being done before the handler runs; the PC-relative address  *)
(* of LEA and the link of JSR and TRAP are formed from it.                *)
C2_PcIsFetchPlusOne ==
    /\ pc \in {"exec", "getchar"} => reg[R_PC] = (fetchAddr + 1) % 65536
    /\ steps > 0 => pre.reg[R_PC] = (fetchAddr + 1) % 65536
    /\ Completed /\ OpOf(instr) = 14 =>
          reg[DrOf(instr)] = (fetchAddr + 1 + Off9Of(instr)) % 65536

C2_Witness ==
    /\ pc = "exec"
    /\ fetchAddr = 65535
    /\ reg[R_PC] = 0
    /\ OpOf(instr) = 14

(* C3: after ADD, AND, NOT, LD, LDI, LDR or LEA, COND classifies the      *)
(* final value of the destination register.                               *)
C3_FlagsFollowDest ==
    Completed /\ OpOf(instr) \in {1, 5, 9, 2, 10, 6, 14} =>
        Classifies(reg[R_COND], reg[DrOf(instr)])

C3_Witness ==
    /\ Completed
    /\ OpOf(instr) = 10
    /\ reg[DrOf(instr)] = 0
    /\ pre.reg[DrOf(instr)] # 0
    /\ pre.reg[R_COND] # 2
    /\ reg[R_COND] = 2

(* C4: BR, JMP, JSR/JSRR, ST, STI and STR leave COND as it was, also when *)
(* the indirect read of STI is a read of the keyboard status register.    *)
C4_CondKept ==
    Completed /\ OpOf(instr) \in {0, 12, 4, 3, 11, 7} =>
        reg[R_COND] = pre.reg[R_COND]

C4_Witness ==
    /\ Completed
    /\ OpOf(instr) = 11
    /\ (fetchAddr + 1 + Off9Of(instr)) % 65536 = 65024
    /\ MemGet(memory, 65026) # MemGet(pre.mem, 65026)
    /\ reg[DrOf(instr)] >= 32768
    /\ reg[R_COND] # 4

(* C5: after JSR, JSRR or TRAP fetched at a, R7 = (a + 1) mod 2^16.       *)
C5_LinkIsNextAddress ==
    /\ Completed /\ OpOf(instr) \in {4, 15} =>
          reg[R_R7] = (fetchAddr + 1) % 65536
    /\ pc = "getchar" => reg[R_R7] = (fetchAddr + 1) % 65536

C5_Witness ==
    /\ Completed
    /\ OpOf(instr) = 4
    /\ instr % 4096 < 2048
    /\ BaseOf(instr) = 7
    /\ pre.reg[R_R7] # reg[R_R7]
    /\ reg[R_R7] = (fetchAddr + 1) % 65536

(* C6 as claimed: a TRAP with a vector outside 0x20..0x25 leaves all of   *)
(* R0..R7, COND and memory as they were, writes nothing and leaves the    *)
(* loop running.                                                          *)
C6_UnknownTrapChangesNothing ==
    Completed /\ IsUnknownTrap(instr) =>
        /\ \A r \in 0..7 : reg[r] = pre.reg[r]
        /\ reg[R_COND] = pre.reg[R_COND]
        /\ memory = pre.mem
        /\ stdout = pre.out /\ outbuf = << >>
        /\ running

(* C6 as amended: such a TRAP writes the link, R7 = the incremented PC,   *)
(* and nothing else: R0..R6, COND, PC and memory are as they were,        *)
(* nothing is written and the loop keeps running.                         *)
C6_UnknownTrapOnlyLinks ==
    Completed /\ IsUnknownTrap(instr) =>
        /\ \A r \in 0..6 : reg[r] = pre.reg[r]
        /\ reg[R_R7] = pre.reg[R_PC]
        /\ reg[R_PC] = pre.reg[R_PC]
        /\ reg[R_COND] = pre.reg[R_COND]
        /\ memory = pre.mem
        /\ stdout = pre.out /\ outbuf = << >>
        /\ running

C6_Witness ==
    /\ Completed
    /\ IsUnknownTrap(instr)
    /\ VectorOf(instr) = 255
    /\ pre.reg[R_R7] # reg[R_R7]
    /\ pre.reg[R_R0] # 0

(* C7: the loop is left normally only after TRAP HALT has cleared         *)
(* running, and nothing is fetched after that; the process aborts exactly *)
(* when the opcode fetched is RTI or RES, writing nothing; every other    *)
(* instruction returns to the loop with running still set.                *)
C7_LoopStops ==
    /\ exitStatus = "return" => ~running /\ IsHaltWord(instr) /\ steps > 0
    /\ ~running /\ steps > 0 => pc \in {"fetch", "exited"} /\ IsHaltWord(instr)
    /\ exitStatus = "abort" =>
          IsIllegalWord(instr) /\ stdout = pre.out /\ running
    /\ pc \in {"fetch", "getchar"} /\ steps > 0 => ~IsIllegalWord(instr)
    /\ Completed /\ ~IsHaltWord(instr) => running
    /\ Completed /\ IsHaltWord(instr) => ~running

C7_Witness ==
    /\ exitStatus = "abort"
    /\ OpOf(instr) = 13
    /\ stdout = << >>
    /\ steps > 1

(* C8: on every exit of the process that follows the switch to            *)
(* non-canonical mode, restore_input_buffering has run after it.          *)
C8_TerminalRestoredOnExit ==
    pc = "exited" /\ tioCalls # << >> =>
        tioCalls[Len(tioCalls)] = "restore"

(* the image loop has just loaded argv[j - 1] *)
Loaded == pc = "load" /\ j > 1

LoadedFile == Disk(argv[j - 1])
LoadedOrigin == 256 * LoadedFile[1] + LoadedFile[2]
LoadedCount == (Len(LoadedFile) - 2) \div 2
LoadedWord(i) == 256 * LoadedFile[3 + 2 * i] + LoadedFile[4 + 2 * i]
WholeWords == Len(LoadedFile) >= 2 /\ Len(LoadedFile) % 2 = 0

(* the cells origin .. origin + n - 1 hold the first n payload words and  *)
(* every other cell is as before the load                                 *)
StoredExactly(n) ==
    /\ \A i \in 0..(n - 1) :
          MemGet(memory, LoadedOrigin + i) = LoadedWord(i)
    /\ \A a \in DOMAIN memory \cup DOMAIN pre.mem :
          a \notin LoadedOrigin..(LoadedOrigin + n - 1) =>
              MemGet(memory, a) = MemGet(pre.mem, a)

(* C9: an image of origin o and n whole words, n <= 0x10000 - o, is       *)
(* stored at o .. o + n - 1 and no other cell changes.                    *)
C9_ImageStored ==
    Loaded /\ WholeWords /\ LoadedCount <= 65536 - LoadedOrigin =>
        StoredExactly(LoadedCount)

(* C10: an image of origin o and n whole words, o + n > 0x10000, is cut   *)
(* to its first 0x10000 - o words, stored at o .. 0xFFFF, and no other    *)
(* cell changes.                                                          *)
C10_ImageTruncated ==
    Loaded /\ WholeWords /\ LoadedOrigin + LoadedCount > 65536 =>
        /\ StoredExactly(65536 - LoadedOrigin)
        /\ \A a \in DOMAIN memory : a \in 0..65535


(* the address LDR reads: the base register as the handler finds it plus  *)
(* the sign-extended 6-bit offset                                         *)
Off6Of(ins) == IF ins % 64 >= 32 THEN (ins % 64) - 64 ELSE ins % 64
LdrAddr == (pre.reg[BaseOf(instr)] + Off6Of(instr)) % 65536

(* C11: mem_read of an address other than 0xFE00 (0xFE02 included) is a   *)
(* plain load that changes nothing; a poll of 0xFE00 that finds a         *)
(* keystroke pending takes exactly one byte of the input into             *)
(* memory[0xFE02] and sets memory[0xFE00] to 0x8000, and one that finds   *)
(* none sets memory[0xFE00] to 0 and takes nothing.                       *)
C11_PollTakesOneByte ==
    /\ Completed /\ OpOf(instr) = 6 /\ LdrAddr # 65024 =>
          /\ reg[DrOf(instr)] = MemGet(pre.mem, LdrAddr)
          /\ memory = pre.mem
    /\ lastPoll # << >> =>
          LET p == lastPoll[1]
          IN  IF p.unread # << >>
              THEN /\ p.kbsr = 32768
                   /\ p.kbdr = Head(p.unread)
                   /\ p.left = Tail(p.unread)
              ELSE /\ p.kbsr = 0
                   /\ p.left = p.unread

(* C12: after TRAP GETC or TRAP IN, R0 is the byte read, in 0..0xFF, and  *)
(* COND classifies it, whatever the host read call returned.              *)
C12_InputByteInR0 ==
    Completed /\ OpOf(instr) = 15 /\ VectorOf(instr) \in {32, 35} =>
        /\ reg[R_R0] \in 0..255
        /\ Classifies(reg[R_COND], reg[R_R0])

(* the cell a PC-relative instruction fetched at a addresses *)
PointerCell(a, ins) == (a + 1 + Off9Of(ins)) % 65536

(* STI has executed and the LDI that follows it, through the same pointer *)
(* cell, has executed too                                                 *)
StiThenLdi ==
    /\ Completed
    /\ OpOf(prev.instr) = 11
    /\ OpOf(instr) = 10
    /\ fetchAddr = (prev.addr + 1) % 65536
    /\ PointerCell(prev.addr, prev.instr) = PointerCell(fetchAddr, instr)

RoundTripCell == PointerCell(fetchAddr, instr)

(* the pointer STI found in the cell *)
RoundTripPointer == MemGet(prev.pre.mem, RoundTripCell)

(* C13 as claimed: STI sr and then LDI dr through the same pointer cell   *)
(* leave dr equal to the value sr had, whatever the pointer is.           *)
C13_StiLdiRoundTrip ==
    StiThenLdi => reg[DrOf(instr)] = prev.pre.reg[DrOf(prev.instr)]

(* C13 as amended: the round trip holds when the pointer cell is not      *)
(* 0xFE00, the pointer in it is neither the address of the cell itself    *)
(* nor 0xFE00, and the LDI is not fetched from 0xFE00; a pointer to       *)
(* 0xFE02 is included.                                                    *)
C13_StiLdiRoundTripPlainCells ==
    /\ StiThenLdi
    /\ RoundTripCell # 65024
    /\ RoundTripPointer \notin {RoundTripCell, 65024}
    /\ fetchAddr # 65024
    => reg[DrOf(instr)] = prev.pre.reg[DrOf(prev.instr)]

C13_Witness ==
    /\ StiThenLdi
    /\ RoundTripPointer = 65026
    /\ DrOf(instr) # DrOf(prev.instr)
    /\ reg[DrOf(instr)] = 12291
    /\ pre.reg[DrOf(instr)] = 0
    /\ prev.pre.reg[DrOf(prev.instr)] = 12291

(* the nzp field of BR, and whether it selects the flag set in cond *)
NzpOf(ins) == (ins \div 512) % 8

Selects(nzp, cond) ==
    \/ cond = 1 /\ nzp % 2 = 1
    \/ cond = 2 /\ (nzp \div 2) % 2 = 1
    \/ cond = 4 /\ nzp \div 4 = 1

BranchTarget == (fetchAddr + 1 + Off9Of(instr)) % 65536

(* C14: BR with nzp = 0 leaves PC at the fetch address plus one, BR with  *)
(* nzp = 7 sets PC to fetch address + 1 + sext(off9) mod 2^16, and in     *)
(* general BR branches exactly when nzp selects the flag set in COND.     *)
C14_BranchIffSelected ==
    Completed /\ OpOf(instr) = 0 =>
        /\ NzpOf(instr) = 0 => reg[R_PC] = (fetchAddr + 1) % 65536
        /\ NzpOf(instr) = 7 => reg[R_PC] = BranchTarget
        /\ reg[R_PC] = IF Selects(NzpOf(instr), pre.reg[R_COND])
                       THEN BranchTarget
                       ELSE (fetchAddr + 1) % 65536

C14_Witness ==
    /\ Completed
    /\ OpOf(instr) = 0
    /\ NzpOf(instr) = 7
    /\ Off9Of(instr) < 0
    /\ pre.reg[R_COND] = 4
    /\ reg[R_PC] = BranchTarget
    /\ reg[R_PC] < fetchAddr

(* the bytes the host has supplied so far, the end of the stream apart *)
Supplied == DataBytes(typed)

IsPrefix(a, b) == Len(a) <= Len(b) /\ a = SubSeq(b, 1, Len(a))

(* the program is the echo loop: poll KBSR, on ready read KBDR, TRAP OUT, *)
(* branch back                                                            *)
EchoRun == argv = <<HandPath(5)>> /\ exitStatus = "none"

(* C15: while the echo loop runs, the bytes the sink has received are a   *)
(* prefix of the bytes the host has supplied, in the same order.          *)
C15_EchoIsPrefix ==
    EchoRun => IsPrefix(stdout \o outbuf, Supplied)

(* An image file as the loader reads it: its origin, its payload words    *)
(* and the number of words that fit below 0x10000.                        *)
FileOrigin(f) == 256 * f[1] + f[2]
FileWord(f, i) == 256 * f[3 + 2 * i] + f[4 + 2 * i]
FileStored(f) ==
    IF (Len(f) - 2) \div 2 < 65536 - FileOrigin(f)
    THEN (Len(f) - 2) \div 2
    ELSE 65536 - FileOrigin(f)

(* an image file: an origin and whole words *)
WholeImage(path) ==
    /\ OnDisk(path)
    /\ Len(Disk(path)) >= 2
    /\ Len(Disk(path)) % 2 = 0

Covers(path, a) ==
    /\ a >= FileOrigin(Disk(path))
    /\ a < FileOrigin(Disk(path)) + FileStored(Disk(path))

(* the images among argv[1..k] that cover cell a *)
Covering(a, k) == {i \in 1..k : Covers(argv[i], a)}

LastCovering(a, k) ==
    CHOOSE i \in Covering(a, k) : \A m \in Covering(a, k) : m <= i

CoveredCells(k) ==
    UNION {FileOrigin(Disk(argv[i])) ..
             (FileOrigin(Disk(argv[i])) + FileStored(Disk(argv[i])) - 1) :
           i \in 1..k}

NothingFetched == steps = 0 /\ pc \notin {"fetch", "exec", "getchar"}

(* C16: without image arguments the process prints the usage, exits with  *)
(* status 2 and loads nothing; when an image cannot be opened it prints   *)
(* 'failed to load image: <path>' and exits with status 1; in both cases  *)
(* nothing is ever fetched; the images are loaded in argument order, each *)
(* cell holding the word of the last image that covers it, whatever the   *)
(* origins of the images.                                                 *)
C16_StartupErrors ==
    /\ argv = << >> => NothingFetched /\ memory = << >> /\ pc # "load"
    /\ exitStatus = "exit2" =>
          argv = << >> /\ stdout = UsageText /\ outbuf = << >>
    /\ (\E i \in DOMAIN argv : ~OnDisk(argv[i])) => NothingFetched
    /\ exitStatus = "exit1" =>
          /\ j \in DOMAIN argv
          /\ ~OnDisk(argv[j])
          /\ \A i \in 1..(j - 1) : OnDisk(argv[i])
          /\ stdout = FailText \o argv[j] \o <<10>> /\ outbuf = << >>
    /\ exitStatus = "return" => \A i \in DOMAIN argv : OnDisk(argv[i])
    /\ pc = "load" /\ (\A i \in 1..(j - 1) : WholeImage(argv[i])) =>
          \A a \in CoveredCells(j - 1) \cup DOMAIN memory :
              MemGet(memory, a) =
                  IF Covering(a, j - 1) = {} THEN 0
                  ELSE LET f == Disk(argv[LastCovering(a, j - 1)])
                       IN  FileWord(f, a - FileOrigin(f))

(* the general-purpose register the handler of instr wrote last: the      *)
(* destination, R0 for TRAP GETC and TRAP IN, the link R7 for JSR, JSRR   *)
(* and the other TRAPs                                                    *)
WritesRegister(ins) == OpOf(ins) \in {1, 5, 9, 2, 10, 6, 14, 4, 15}

LastWritten(ins) ==
    IF OpOf(ins) = 4 THEN 7
    ELSE IF OpOf(ins) = 15
         THEN (IF VectorOf(ins) \in {32, 35} THEN 0 ELSE 7)
         ELSE DrOf(ins)

(* C17 as claimed: every handler that writes one of R0..R7, the link of   *)
(* JSR/JSRR and TRAP included, ends with COND classifying the register it *)
(* wrote.                                                                 *)
C17_EveryRegisterWriteSetsFlags ==
    Completed /\ WritesRegister(instr) =>
        Classifies(reg[R_COND], reg[LastWritten(instr)])

(* C17 as amended: COND classifies the destination after ADD, AND, NOT,   *)
(* LD, LDI, LDR, LEA and R0 after TRAP GETC and TRAP IN; the write of the *)
(* link R7 by JSR/JSRR and TRAP does not touch COND, which JSR/JSRR and   *)
(* the TRAPs that do not write R0 leave as it was.                        *)
C17_FlagsFollowDestNotLink ==
    /\ Completed /\ OpOf(instr) \in {1, 5, 9, 2, 10, 6, 14, 15}
         /\ (OpOf(instr) = 15 => VectorOf(instr) \in {32, 35}) =>
          Classifies(reg[R_COND], reg[LastWritten(instr)])
    /\ Completed /\ OpOf(instr) \in {4, 15}
         /\ (OpOf(instr) = 15 => VectorOf(instr) \notin {32, 35}) =>
          /\ reg[R_COND] = pre.reg[R_COND]
          /\ reg[R_R7] = pre.reg[R_PC]
    /\ pc = "getchar" => reg[R_COND] = pre.reg[R_COND]

C17_Witness ==
    /\ Completed
    /\ OpOf(instr) = 4
    /\ pre.reg[R_R7] >= 32768
    /\ reg[R_R7] = 12297
    /\ pre.reg[R_COND] = 4
    /\ reg[R_COND] = 4

(* C18: the string scans of TRAP PUTS and TRAP PUTSP read only words of   *)
(* memory[], at addresses 0x0000..0xFFFF, also when no zero word lies     *)
(* between R0 and 0xFFFF.                                                 *)
C18_ScanStaysInMemory ==
    Completed /\ OpOf(instr) = 15 /\ VectorOf(instr) \in {34, 36} =>
        ~oobRead

(* C19: whenever restore_input_buffering has been applied, by the handler *)
(* of SIGINT or by main, disable_input_buffering had captured the         *)
(* attributes before; never-captured attributes are not written to the    *)
(* terminal.                                                              *)
C19_RestoreAfterCapture ==
    /\ tio # "zeroed"
    /\ \A i \in DOMAIN tioCalls :
          tioCalls[i] = "restore" =>
              \E k \in 1..(i - 1) : tioCalls[k] = "disable"

(* C20: after JSRR, PC is the value the base register held before the     *)
(* instruction, for every base register, R7 included.                     *)
C20_JsrrJumpsToBase ==
    Completed /\ OpOf(instr) = 4 /\ instr % 4096 < 2048 =>
        reg[R_PC] = pre.reg[BaseOf(instr)]

=============================================================================
